---- MODULE Spec2Model ----
(***************************************************************************)
(* The two SKOS-to-JSON converters of the repository:                      *)
(*   src/src/convert.py  rdf_to_json / concept_to_json / main              *)
(*   src/convert.py      build_hierarchy / main                            *)
(* The RDF graph is the input; it is fixed for a behaviour.  Every         *)
(* sequence of the graph is the iteration order rdflib yields for the      *)
(* corresponding triple pattern.                                           *)
(***************************************************************************)
EXTENDS Integers, Sequences, FiniteSets, TLC

VARIABLES graph, pc, stack, last, json_data, outfile, exc, exitCode, clock,
          run, prev

vars == <<graph, pc, stack, last, json_data, outfile, exc, exitCode, clock,
          run, prev>>

(* ------------------------------ bounds -------------------------------- *)
\* skos:narrower triples in a graph
MaxEdges == 2
\* skos:hasTopConcept triples in a graph
MaxTop == 2
\* largest value of the wall clock (milliseconds)
MaxClock == 1
\* frames the interpreter allows before it raises RecursionError
RecursionLimit == 4

(* ------------------------------ values -------------------------------- *)
Concepts == {"a", "b", "c"}
SchemeURI == "s"
\* Python's None; no string of a graph equals it
None == "<None>"
NoObj == [type |-> "none"]
Untouched == [state |-> "untouched", content |-> <<>>]

Range(s) == {s[i] : i \in 1..Len(s)}
Min(x, y) == IF x <= y THEN x ELSE y

RECURSIVE SumLen(_, _)
SumLen(f, S) ==
    IF S = {} THEN 0
    ELSE LET x == CHOOSE y \in S : TRUE IN Len(f[x]) + SumLen(f, S \ {x})

\* the sequences without repetition of at most n elements of S
RECURSIVE SeqsNoDup(_, _)
SeqsNoDup(S, n) ==
    IF n = 0 THEN {<<>>}
    ELSE LET shorter == SeqsNoDup(S, n - 1) IN
         shorter \cup
         UNION {{Append(q, x) : x \in S \ Range(q)} : q \in shorter}

Lit(lang, text) == [language |-> lang, text |-> text]

\* the skos:prefLabel literals of a concept, in iteration order
LabelChoice(c, k) ==
    CASE k = 1 -> <<Lit("en", c \o "-en"), Lit("fr-fr", c \o "-fr")>>
      [] k = 2 -> <<Lit("fr-fr", c \o "-fr"), Lit("fr-fr", c \o "-fr2")>>
      [] k = 3 -> <<Lit("en", c \o "-en")>>
      [] k = 4 -> <<>>
      [] k = 5 -> <<Lit("fr", c \o "-f"), Lit("en", c \o "-en")>>
      [] OTHER -> <<Lit("fr-fr", c \o "-fr"), Lit("en", c \o "-en")>>
LabelKinds == 1..6

\* the dct:created literals of a subject, in iteration order
DateChoice(k) ==
    CASE k = 1 -> <<"2020-01-01">>
      [] k = 2 -> <<>>
      [] OTHER -> <<"2021-05-05", "2020-01-01">>
DateKinds == 1..3

Rot(k, d, n) == ((k + d - 1) % n) + 1
Ord(c) == CASE c = "a" -> 0 [] c = "b" -> 1 [] c = "c" -> 2 [] OTHER -> 3

Shapes ==
    {sh \in [top : SeqsNoDup(Concepts, MaxTop),
             narrower : [Concepts -> SeqsNoDup(Concepts, MaxEdges)]] :
        SumLen(sh.narrower, Concepts) <= MaxEdges}

CoreShapes ==
    {[top |-> <<"a">>,
      narrower |-> [c \in Concepts |->
                      CASE c = "a" -> <<"b">> [] c = "b" -> <<"c">> [] OTHER -> <<>>]],
     [top |-> <<"a", "c">>,
      narrower |-> [c \in Concepts |-> IF c = "a" THEN <<"b">> ELSE <<>>]],
     [top |-> <<"b">>,
      narrower |-> [c \in Concepts |-> IF c = "b" THEN <<"c", "a">> ELSE <<>>]]}

\* sh.top and sh.narrower are also read as the skos:inScheme subjects and the
\* skos:broader objects: build_hierarchy reads those, rdf_to_json never does
MkGraph(sh, lp, dp, title, parses, schemes) ==
    [parses |-> parses,
     schemes |-> schemes,
     title |-> title,
     topConcepts |-> sh.top,
     narrower |-> sh.narrower,
     inScheme |-> sh.top,
     broader |-> sh.narrower,
     prefLabel |-> [c \in Concepts |-> LabelChoice(c, Rot(lp, Ord(c), Cardinality(LabelKinds)))],
     created |-> [x \in Concepts \cup {SchemeURI} |->
                    DateChoice(Rot(dp, Ord(x), Cardinality(DateKinds)))]]

Graphs ==
    {MkGraph(sh, 1, 1, <<"Thesaurus">>, TRUE, <<SchemeURI>>) : sh \in Shapes}
    \cup
    {MkGraph(sh, lp, dp, title, parses, schemes) :
        sh \in CoreShapes, lp \in LabelKinds, dp \in DateKinds,
        title \in {<<>>, <<"Thesaurus">>}, parses \in BOOLEAN,
        schemes \in {<<>>, <<SchemeURI>>}}

(* --------------------- src/src/convert.py: helpers --------------------- *)
\* str(): "None" for None, the lexical form otherwise
str(x) == IF x = None THEN "None" ELSE x

\* uuid.uuid5(NAMESPACE_URL, uri): a hash of the URI, never the URI itself
generate_id(uri) == "uuid5:" \o uri

\* faulty variant: a single narrower concept is not counted
has_children_gt1(g, subject) == Len(g.narrower[subject]) > 1

has_children(g, subject) == Len(g.narrower[subject]) > 0

\* Graph.value(s, p, None): the first object, None when there is none
graph_value(objects) == IF objects = <<>> THEN None ELSE Head(objects)

RECURSIVE first_fr(_)
first_fr(labels) ==
    IF labels = <<>> THEN None
    ELSE IF Head(labels).language = "fr-fr" THEN Head(labels).text
    ELSE first_fr(Tail(labels))

RECURSIVE first_lang(_, _)
first_lang(labels, lang) ==
    IF labels = <<>> THEN None
    ELSE IF Head(labels).language = lang THEN Head(labels).text
    ELSE first_lang(Tail(labels), lang)

\* faulty variant: the language tag compared is "fr"
get_pref_label_fr_short_tag(g, concept) ==
    LET labels == g.prefLabel[concept] IN
    IF first_lang(labels, "fr") # None THEN first_lang(labels, "fr")
    ELSE str(graph_value([i \in 1..Len(labels) |-> labels[i].text]))

get_pref_label_fr(g, concept) ==
    LET labels == g.prefLabel[concept] IN
    IF first_fr(labels) # None THEN first_fr(labels)
    ELSE str(graph_value([i \in 1..Len(labels) |-> labels[i].text]))

get_creation_date(g, subject) ==
    IF g.created[subject] = <<>> THEN None ELSE Head(g.created[subject])

\* faulty variant: a missing creation date is replaced by the time of the conversion
create_tag_dated_now(uri, name, creation_date, now) ==
    [type |-> "tag",
     id |-> uri,
     name |-> name,
     creationDate |-> IF creation_date = None THEN ToString(now) ELSE creation_date,
     creationTimestamp |-> now]

create_tag(uri, name, creation_date, now) ==
    [type |-> "tag",
     id |-> uri,
     name |-> name,
     creationDate |-> creation_date,
     creationTimestamp |-> now]

(* ------------------- src/src/convert.py: traversal --------------------- *)
Top == stack[Len(stack)]

\* the objects the loop of a frame iterates over
Kids(g, f) ==
    IF f.concept \in Concepts THEN g.narrower[f.concept] ELSE g.topConcepts

\* the times a read of the clock can return
Ticks(t) == t..Min(t + 1, MaxClock)

\* the caller's loop body after the recursive call returned child_obj
append_child(g, children, child, child_obj, now) ==
    IF child_obj.type = "category"
    THEN children \o <<child_obj,
                       create_tag(str(child), get_pref_label_fr(g, child),
                                  get_creation_date(g, child), now)>>
    ELSE Append(children, child_obj)

Raise(e) ==
    /\ pc' = "except"
    /\ exc' = e
    /\ stack' = <<>>
    /\ UNCHANGED <<graph, last, json_data, outfile, exitCode, clock, run, prev>>

\* g.parse, the scheme lookup and the title
rdf_to_json_begin ==
    /\ pc = "start"
    /\ IF ~graph.parses THEN Raise("ParseError")
       ELSE IF graph.schemes = <<>> THEN Raise("IndexError")
       ELSE /\ stack' = <<[concept |-> Head(graph.schemes),
                           name |-> str(graph_value(graph.title)),
                           i |-> 1,
                           children |-> <<>>]>>
            /\ pc' = "traverse"
            /\ UNCHANGED <<graph, last, json_data, outfile, exc, exitCode,
                           clock, run, prev>>

\* a call of concept_to_json that exceeds the interpreter's frame limit
concept_to_json_overflow ==
    /\ pc = "traverse"
    /\ stack # <<>>
    /\ Top.i <= Len(Kids(graph, Top))
    /\ Len(stack) >= RecursionLimit
    /\ Raise("RecursionError")

\* a call of concept_to_json on a concept without narrower concepts, and
\* the caller's append of the tag it returns
concept_to_json_leaf ==
    /\ pc = "traverse"
    /\ stack # <<>>
    /\ Top.i <= Len(Kids(graph, Top))
    /\ Len(stack) < RecursionLimit
    /\ LET child == Kids(graph, Top)[Top.i] IN
       /\ ~has_children(graph, child)
       /\ \E now \in Ticks(clock) :
            LET child_obj == create_tag(str(child),
                                        get_pref_label_fr(graph, child),
                                        get_creation_date(graph, child), now)
            IN /\ stack' = [stack EXCEPT ![Len(stack)] =
                              [@ EXCEPT !.i = @ + 1,
                                        !.children = append_child(
                                            graph, @, child, child_obj, now)]]
               /\ last' = [child |-> child, child_obj |-> child_obj]
               /\ clock' = now
    /\ UNCHANGED <<graph, pc, json_data, outfile, exc, exitCode, run, prev>>

\* a call of concept_to_json on a concept with narrower concepts: its frame
concept_to_json_enter ==
    /\ pc = "traverse"
    /\ stack # <<>>
    /\ Top.i <= Len(Kids(graph, Top))
    /\ Len(stack) < RecursionLimit
    /\ LET child == Kids(graph, Top)[Top.i] IN
       /\ has_children(graph, child)
       /\ stack' = Append(stack,
                          [concept |-> child,
                           name |-> get_pref_label_fr(graph, child),
                           i |-> 1,
                           children |-> <<>>])
    /\ UNCHANGED <<graph, pc, last, json_data, outfile, exc, exitCode, clock,
                   run, prev>>

\* faulty variant: the tag of a category is placed in its own children list
category_with_own_tag(obj_id, name, children, creation_date, now) ==
    [type |-> "category",
     id |-> obj_id,
     name |-> name,
     children |-> Append(children, create_tag(obj_id, name, creation_date, now)),
     creationDate |-> creation_date,
     creationTimestamp |-> now,
     showChildren |-> TRUE]

category(obj_id, name, children, creation_date, now) ==
    [type |-> "category",
     id |-> obj_id,
     name |-> name,
     children |-> children,
     creationDate |-> creation_date,
     creationTimestamp |-> now,
     showChildren |-> TRUE]

\* the return of a category from concept_to_json, and the caller's append
\* of the category and of its tag
concept_to_json_return ==
    /\ pc = "traverse"
    /\ Len(stack) > 1
    /\ Top.i > Len(Kids(graph, Top))
    /\ \E now \in Ticks(clock) : \E later \in Ticks(now) :
         LET child == Top.concept
             child_obj == category(generate_id(str(child)), Top.name,
                                   Top.children,
                                   get_creation_date(graph, child), now)
             caller == Len(stack) - 1
         IN /\ stack' = [SubSeq(stack, 1, caller) EXCEPT ![caller] =
                           [@ EXCEPT !.i = @ + 1,
                                     !.children = append_child(
                                         graph, @, child, child_obj, later)]]
            /\ last' = [child |-> child, child_obj |-> child_obj]
            /\ clock' = later
    /\ UNCHANGED <<graph, pc, json_data, outfile, exc, exitCode, run, prev>>

\* the root category and the return of rdf_to_json
rdf_to_json_return ==
    /\ pc = "traverse"
    /\ Len(stack) = 1
    /\ Top.i > Len(Kids(graph, Top))
    /\ \E now \in Ticks(clock) :
         /\ json_data' = <<category(str(Top.concept), Top.name, Top.children,
                                    get_creation_date(graph, Top.concept), now)>>
         /\ clock' = now
    /\ stack' = <<>>
    /\ pc' = "open"
    /\ UNCHANGED <<graph, last, outfile, exc, exitCode, run, prev>>

(* --------------------- src/src/convert.py: main ------------------------ *)
main_open ==
    /\ pc = "open"
    /\ outfile' = [state |-> "open", content |-> <<>>]
    /\ pc' = "dump"
    /\ UNCHANGED <<graph, stack, last, json_data, exc, exitCode, clock, run, prev>>

main_dump ==
    /\ pc = "dump"
    /\ outfile' = [state |-> "written", content |-> json_data]
    /\ exitCode' = 0
    /\ pc' = "exit"
    /\ UNCHANGED <<graph, stack, last, json_data, exc, clock, run, prev>>

\* faulty variant: the handler prints the error and returns: exit code 0
main_except_returns ==
    /\ pc = "except"
    /\ exitCode' = 0
    /\ pc' = "exit"
    /\ UNCHANGED <<graph, stack, last, json_data, outfile, exc, clock, run, prev>>

main_except ==
    /\ pc = "except"
    /\ exitCode' = 1
    /\ pc' = "exit"
    /\ UNCHANGED <<graph, stack, last, json_data, outfile, exc, clock, run, prev>>

\* a second conversion of the same input, to a fresh output path
main_again ==
    /\ pc = "exit"
    /\ run = 1
    /\ run' = 2
    /\ prev' = json_data
    /\ pc' = "start"
    /\ json_data' = <<>>
    /\ outfile' = Untouched
    /\ exc' = None
    /\ exitCode' = -1
    /\ last' = [child |-> None, child_obj |-> NoObj]
    /\ \E t \in Ticks(clock) : clock' = t
    /\ UNCHANGED <<graph, stack>>

Init ==
    /\ graph \in Graphs
    /\ pc = "start"
    /\ stack = <<>>
    /\ last = [child |-> None, child_obj |-> NoObj]
    /\ json_data = <<>>
    /\ outfile = Untouched
    /\ exc = None
    /\ exitCode = -1
    /\ clock = 0
    /\ run = 1
    /\ prev = <<>>

Next ==
    \/ rdf_to_json_begin
    \/ concept_to_json_overflow
    \/ concept_to_json_leaf
    \/ concept_to_json_enter
    \/ concept_to_json_return
    \/ rdf_to_json_return
    \/ main_open
    \/ main_dump
    \/ main_except
    \/ main_again

Spec == Init /\ [][Next]_vars

(* ------------------------ src/convert.py ------------------------------- *)
old_generate_id(uri) == str(uri)

old_get_creation_date(g, concept) ==
    IF g.created[concept] = <<>> THEN None ELSE Head(g.created[concept])

get_scheme_title(g, scheme) ==
    IF g.title = <<>> THEN "Unknown Title" ELSE Head(g.title)

\* None (JSON null) when no label is tagged fr-fr
old_get_pref_label_fr(g, concept) == first_fr(g.prefLabel[concept])

\* an uncaught exception: the interpreter prints the traceback and exits 1
Crash(e) ==
    /\ pc' = "exit"
    /\ exc' = e
    /\ exitCode' = 1
    /\ stack' = <<>>
    /\ UNCHANGED <<graph, last, json_data, outfile, clock, run, prev>>

\* g.parse, the loop over the schemes and the root of build_hierarchy
old_main_begin ==
    /\ pc = "old_start"
    /\ IF ~graph.parses THEN Crash("ParseError")
       ELSE IF graph.schemes = <<>> THEN Crash("NameError")
       ELSE \E now \in Ticks(clock) :
            LET scheme == Head(graph.schemes) IN
            /\ stack' = <<[concept |-> scheme,
                           id |-> old_generate_id(scheme),
                           name |-> get_scheme_title(graph, scheme),
                           creationDate |-> old_get_creation_date(graph, scheme),
                           creationTimestamp |-> now,
                           i |-> 1,
                           children |-> <<>>]>>
            /\ clock' = now
            /\ pc' = "old_loop"
            /\ UNCHANGED <<graph, last, json_data, outfile, exc, exitCode,
                           run, prev>>

old_child_tag(g, child, now) ==
    [type |-> "tag",
     id |-> old_generate_id(child),
     name |-> old_get_pref_label_fr(g, child),
     creationDate |-> old_get_creation_date(g, child),
     creationTimestamp |-> now]

\* the node of one concept of the scheme
old_category(g, concept, now, later) ==
    LET children == g.broader[concept] IN
    IF children # <<>>
    THEN [id |-> old_generate_id(concept),
          name |-> old_get_pref_label_fr(g, concept),
          creationDate |-> old_get_creation_date(g, concept),
          creationTimestamp |-> now,
          type |-> "tag",
          children |-> [j \in 1..Len(children) |->
                          old_child_tag(g, children[j], later)]]
    ELSE [id |-> old_generate_id(concept),
          name |-> old_get_pref_label_fr(g, concept),
          creationDate |-> old_get_creation_date(g, concept),
          creationTimestamp |-> now,
          type |-> "tag"]

\* one iteration of the loop of build_hierarchy
build_hierarchy_concept ==
    /\ pc = "old_loop"
    /\ Top.i <= Len(graph.inScheme)
    /\ \E now \in Ticks(clock) : \E later \in Ticks(now) :
         LET concept == graph.inScheme[Top.i]
             node == old_category(graph, concept, now, later)
         IN /\ stack' = <<[Top EXCEPT !.i = @ + 1,
                                      !.children = Append(@, node)]>>
            /\ last' = [child |-> concept, child_obj |-> node]
            /\ clock' = IF graph.broader[concept] # <<>> THEN later ELSE now
    /\ UNCHANGED <<graph, pc, json_data, outfile, exc, exitCode, run, prev>>

\* the return of build_hierarchy and the wrapping list
build_hierarchy_return ==
    /\ pc = "old_loop"
    /\ Top.i > Len(graph.inScheme)
    /\ json_data' = <<[type |-> "category",
                       id |-> Top.id,
                       name |-> Top.name,
                       children |-> Top.children,
                       creationDate |-> Top.creationDate,
                       creationTimestamp |-> Top.creationTimestamp,
                       showChildren |-> TRUE]>>
    /\ stack' = <<>>
    /\ pc' = "old_open"
    /\ UNCHANGED <<graph, last, outfile, exc, exitCode, clock, run, prev>>

old_main_open ==
    /\ pc = "old_open"
    /\ outfile' = [state |-> "open", content |-> <<>>]
    /\ pc' = "old_dump"
    /\ UNCHANGED <<graph, stack, last, json_data, exc, exitCode, clock, run, prev>>

old_main_dump ==
    /\ pc = "old_dump"
    /\ outfile' = [state |-> "written", content |-> json_data]
    /\ exitCode' = 0
    /\ pc' = "exit"
    /\ UNCHANGED <<graph, stack, last, json_data, exc, clock, run, prev>>

InitBuild ==
    /\ graph \in Graphs
    /\ pc = "old_start"
    /\ stack = <<>>
    /\ last = [child |-> None, child_obj |-> NoObj]
    /\ json_data = <<>>
    /\ outfile = Untouched
    /\ exc = None
    /\ exitCode = -1
    /\ clock = 0
    /\ run = 1
    /\ prev = <<>>

NextBuild ==
    \/ old_main_begin
    \/ build_hierarchy_concept
    \/ build_hierarchy_return
    \/ old_main_open
    \/ old_main_dump

SpecBuild == InitBuild /\ [][NextBuild]_vars

(* --------------------------- the output tree --------------------------- *)
HasTree == json_data # <<>>
Root == json_data[1]

HasField(n, f) == f \in DOMAIN n

\* the nodes of a tree in document order, each occurrence counted
RECURSIVE Flatten(_)
RECURSIVE FlattenAll(_)
Flatten(n) == IF HasField(n, "children") THEN <<n>> \o FlattenAll(n.children) ELSE <<n>>
FlattenAll(ns) == IF ns = <<>> THEN <<>> ELSE Flatten(Head(ns)) \o FlattenAll(Tail(ns))

Nodes(n) == Range(Flatten(n))

\* the concepts whose URI or hashed URI is the id of the node
ConceptsOf(n) == {c \in Concepts : n.id \in {c, "uuid5:" \o c}}

\* the concepts the traversal visits: the closure of skos:narrower from the
\* top concepts of the scheme
RECURSIVE Closure(_, _)
Closure(g, S) ==
    LET T == S \cup UNION {Range(g.narrower[c]) : c \in S} IN
    IF T = S THEN S ELSE Closure(g, T)
Reachable(g) == Closure(g, Range(g.topConcepts))

\* a tree without its creationTimestamp fields
RECURSIVE StripTs(_)
StripTs(n) ==
    [f \in DOMAIN n \ {"creationTimestamp"} |->
        IF f = "children"
        THEN [i \in 1..Len(n.children) |-> StripTs(n.children[i])]
        ELSE n[f]]

Emitted == last.child_obj # NoObj

(* ------------------------------- claims -------------------------------- *)

\* C1: in every tree rdf_to_json produces, a child of type category of a
\* category node is followed immediately by a tag node with the same id,
\* name and creationDate, and without children and showChildren
C1_DuplicationLaw ==
    HasTree =>
      \A C \in Nodes(Root) :
        C.type = "category" =>
          \A i \in 1..Len(C.children) :
            C.children[i].type = "category" =>
              /\ i + 1 <= Len(C.children)
              /\ LET K == C.children[i]
                     T == C.children[i + 1]
                 IN /\ T.type = "tag"
                    /\ T.id = K.id
                    /\ T.name = K.name
                    /\ T.creationDate = K.creationDate
                    /\ ~HasField(T, "children")
                    /\ ~HasField(T, "showChildren")

\* C2: every node concept_to_json returns, and every non-root node of the
\* tree, has the hashed URI of its concept as id; the root has the raw URI
C2_HashedIds ==
    /\ Emitted => last.child_obj.id = "uuid5:" \o last.child
    /\ HasTree =>
         /\ Root.id = Head(graph.schemes)
         /\ \A k \in 2..Len(Flatten(Root)) :
              \E c \in Concepts : Flatten(Root)[k].id = "uuid5:" \o c

\* C3: a conversion that visits a concept without any skos:prefLabel fails;
\* no tree is produced in which such a concept has a node
C3_NoLabelFails ==
    /\ HasTree => \A c \in Reachable(graph) : graph.prefLabel[c] # <<>>
    /\ Emitted => graph.prefLabel[last.child] # <<>>

\* C4: without a ConceptScheme the run ends with a non-zero exit code and
\* the output file is never opened; every run that ended left either the
\* complete tree in the output file or no output file, and no run stops
\* before it ended
Complete(tree) ==
    /\ Len(tree) = 1
    /\ tree[1].type = "category"
    /\ tree[1].id = Head(graph.schemes)
    /\ UNION {ConceptsOf(n) : n \in Nodes(tree[1])} = Reachable(graph)
OnCycle(g) ==
    \E c \in Reachable(g) : c \in Closure(g, Range(g.narrower[c]))
C5_CycleDetected ==
    /\ \A i, j \in 1..Len(stack) : stack[i].concept = stack[j].concept => i = j
    /\ (graph.parses /\ graph.schemes # <<>> /\ OnCycle(graph) /\ pc = "exit") =>
         exc = "CycleDetectedError" /\ ~HasTree /\ outfile = Untouched

\* C6: concept_to_json returns a category exactly for the concepts with a
\* skos:narrower object: a tag without children and showChildren otherwise,
\* a category with showChildren = true and a non-empty children list else
C6_LeafLaw ==
    Emitted =>
      LET o == last.child_obj
          n == Len(graph.narrower[last.child])
      IN /\ o.type = "category" <=> n >= 1
         /\ n = 0 => /\ o.type = "tag"
                     /\ ~HasField(o, "children")
                     /\ ~HasField(o, "showChildren")
         /\ n >= 1 => /\ o.type = "category"
                      /\ o.showChildren = TRUE
                      /\ o.children # <<>>
C6_Witness ==
    /\ Emitted
    /\ last.child_obj.type = "category"
    /\ \E i \in 1..Len(last.child_obj.children) :
         last.child_obj.children[i].type = "tag"
    /\ \E i \in 1..Len(last.child_obj.children) :
         last.child_obj.children[i].type = "category"

\* C7: the name of every concept node is the first skos:prefLabel tagged
\* fr-fr when there is one, and otherwise one of the skos:prefLabel values
\* when there is any
NameOk(name, labels) ==
    LET fr == {i \in 1..Len(labels) : labels[i].language = "fr-fr"} IN
    IF fr # {}
    THEN name = labels[CHOOSE i \in fr : \A j \in fr : i <= j].text
    ELSE labels # <<>> =>
           /\ name # None
           /\ \E i \in 1..Len(labels) : name = labels[i].text
C7_LabelFallback ==
    /\ Emitted => NameOk(last.child_obj.name, graph.prefLabel[last.child])
    /\ HasTree =>
         \A k \in 2..Len(Flatten(Root)) :
           \A c \in ConceptsOf(Flatten(Root)[k]) :
             NameOk(Flatten(Root)[k].name, graph.prefLabel[c])
C7_Witness ==
    /\ HasTree
    /\ \E c \in Reachable(graph) :
         /\ Len(graph.prefLabel[c]) = 2
         /\ graph.prefLabel[c][1].language = "fr-fr"
         /\ graph.prefLabel[c][2].language = "fr-fr"
    /\ \E c \in Reachable(graph) :
         /\ Len(graph.prefLabel[c]) = 2
         /\ graph.prefLabel[c][1].language = "en"
         /\ graph.prefLabel[c][2].language = "fr-fr"
    /\ \E c \in Reachable(graph) :
         /\ graph.prefLabel[c] # <<>>
         /\ \A i \in 1..Len(graph.prefLabel[c]) :
              graph.prefLabel[c][i].language # "fr-fr"

\* C8: no node of type tag has a children or a showChildren field, in the
\* tree of either converter
C8_TagsHaveNoChildren ==
    HasTree =>
      \A n \in Nodes(Root) :
        n.type = "tag" => ~HasField(n, "children") /\ ~HasField(n, "showChildren")

\* C9: the second conversion of a graph ends as the first did, and its tree
\* equals the tree of the first but for the creationTimestamp fields
C9_Determinism ==
    (run = 2 /\ pc \in {"open", "dump", "exit"}) =>
      /\ HasTree <=> prev # <<>>
      /\ HasTree => /\ Len(json_data) = Len(prev)
                    /\ StripTs(Root) = StripTs(prev[1])
C9_Witness ==
    /\ run = 2
    /\ HasTree
    /\ StripTs(Root) = StripTs(prev[1])
    /\ Root.creationTimestamp # prev[1].creationTimestamp
    /\ \E i \in 1..Len(Root.children) : Root.children[i].type = "category"

\* C10: in the tree of a tree-shaped hierarchy, each concept with narrower
\* concepts has exactly one tag, in the children list of the node of its
\* parent; a concept without has only its leaf tag; the root has no tag
Parents(g, c) ==
    {p \in Reachable(g) : c \in Range(g.narrower[p])}
TreeShaped(g) ==
    \A c \in Reachable(g) :
      Cardinality(Parents(g, c)) + (IF c \in Range(g.topConcepts) THEN 1 ELSE 0) = 1
TagsOf(ns, c) ==
    {k \in 1..Len(ns) : ns[k].type = "tag" /\ c \in ConceptsOf(ns[k])}
CategoriesOf(ns, c) ==
    {k \in 1..Len(ns) : ns[k].type = "category" /\ c \in ConceptsOf(ns[k])}
C10_OneDuplicatePerCategory ==
    (HasTree /\ TreeShaped(graph)) =>
      LET all == Flatten(Root) IN
      /\ \A k \in 1..Len(all) : all[k].type = "tag" => all[k].id # Root.id
      /\ \A c \in Reachable(graph) :
           /\ Cardinality(TagsOf(all, c)) = 1
           /\ Cardinality(CategoriesOf(all, c)) =
                (IF graph.narrower[c] # <<>> THEN 1 ELSE 0)
           /\ graph.narrower[c] # <<>> =>
                /\ TagsOf(all[CHOOSE k \in CategoriesOf(all, c) : TRUE].children, c) = {}
                /\ \A p \in Parents(graph, c) :
                     \A k \in CategoriesOf(all, p) :
                       Cardinality(TagsOf(all[k].children, c)) = 1
                /\ c \in Range(graph.topConcepts) =>
                     Cardinality(TagsOf(Root.children, c)) = 1
C10_Witness ==
    /\ HasTree
    /\ TreeShaped(graph)
    /\ \E c \in Range(graph.topConcepts) :
         \E d \in Range(graph.narrower[c]) : graph.narrower[d] # <<>>

====
